---- MODULE Spec2Model ----
(***************************************************************************)
(* RISC-V FPU emulation helpers (target/riscv/fpu_helper.c), system-mode   *)
(* RV64 build (CONFIG_USER_ONLY undefined, TARGET_RISCV64 defined).        *)
(*                                                                         *)
(* An unsigned integer of the C code is the set of the positions of its    *)
(* one bits: uint64_t is a subset of 0..63, uint32_t a subset of 0..31.    *)
(* Shifts, masks, exclusive-or, casts and unsigned comparison are the      *)
(* operations on such sets.  Every helper is one action: the whole body    *)
(* from require_fp to the return.                                          *)
(***************************************************************************)
EXTENDS Integers, Sequences, FiniteSets

VARIABLES env, call

vars == <<env, call>>

(* ------------------------------ bounds --------------------------------- *)

\* how many of FlagOutcomeTable's entries a softfloat primitive may raise
NumFlagOutcomes == 2
\* how many of the operand tables' entries the fused helpers draw from
NumFusedOperands == 1
\* how many of FrmTable's entries the rounding-mode register may hold
NumFrmValues == 2
\* how many of the classification tables' entries fclass draws from
NumClassInputs == 6

(* --------------------------- bit-set integers -------------------------- *)

Max(S) == CHOOSE x \in S : \A y \in S : y <= x

XOR(a, b) == (a \ b) \cup (b \ a)

AND(a, b) == a \cap b

SHR(a, n) == {b - n : b \in {c \in a : c >= n}}

SHL32(a, n) == {b + n : b \in {c \in a : c + n <= 31}}

SHL64(a, n) == {b + n : b \in {c \in a : c + n <= 63}}

\* unsigned a < b
ULT(a, b) == a # b /\ Max(XOR(a, b)) \in b

cast_uint32(a) == a \cap (0 .. 31)

cast_uint64(a) == a \cap (0 .. 63)

cast_int16(a) == a \cap (0 .. 15)

\* (uint32_t)INT32_MIN = 0x80000000, zero-extended in a 64-bit expression
UINT32_INT32_MIN == {31}

\* (uint64_t)INT64_MIN = 0x8000000000000000
UINT64_INT64_MIN == {63}

(* ------------------------ rounding and exception flags ----------------- *)

ieee_rm ==
  << "float_round_nearest_even",
     "float_round_to_zero",
     "float_round_down",
     "float_round_up",
     "float_round_ties_away" >>

\* what the read ieee_rm[rm] yields for rm in 5..7, past the end of the
\* five-element table: any unsigned int, one of the table's or not
OutOfBoundsRead ==
  {ieee_rm[i] : i \in 1 .. 5} \cup {"float_round_to_odd", "not_a_rounding_mode"}

SoftfloatFlags ==
  { "float_flag_invalid", "float_flag_divbyzero", "float_flag_overflow",
    "float_flag_underflow", "float_flag_inexact",
    "float_flag_input_denormal", "float_flag_output_denormal" }

softfloat_flags_to_riscv(flags) ==
     (IF "float_flag_inexact"   \in flags THEN {"FPEXC_NX"} ELSE {})
  \cup (IF "float_flag_underflow" \in flags THEN {"FPEXC_UF"} ELSE {})
  \cup (IF "float_flag_overflow"  \in flags THEN {"FPEXC_OF"} ELSE {})
  \cup (IF "float_flag_divbyzero" \in flags THEN {"FPEXC_DZ"} ELSE {})
  \cup (IF "float_flag_invalid"   \in flags THEN {"FPEXC_NV"} ELSE {})

\* the flag sets one softfloat primitive raises (IEEE 754: overflow and
\* underflow come with inexact)
FlagOutcomeTable ==
  << {},
     {"float_flag_invalid"},
     {"float_flag_overflow", "float_flag_inexact"},
     {"float_flag_divbyzero"},
     {"float_flag_underflow", "float_flag_inexact"},
     {"float_flag_inexact"} >>

FlagOutcomes == {FlagOutcomeTable[i] : i \in 1 .. NumFlagOutcomes}

RoundingCodes == 0 .. 7

(* ------------------------------ operands ------------------------------- *)

\* binary32 and binary64 patterns from their fields
pack32(sign, exp, frac) ==
  frac \cup {e + 23 : e \in exp} \cup (IF sign THEN {31} ELSE {})

pack64(sign, exp, frac) ==
  frac \cup {e + 52 : e \in exp} \cup (IF sign THEN {63} ELSE {})

\* bits 32..63 of a 64-bit register that holds a binary32 value
UpperOnes == 32 .. 63

\* operand triples of the single-precision helpers (64-bit registers):
\* a negative signaling NaN with upper bits set, 1.0f, a positive quiet NaN;
\* then 1.0f, -2.0f with upper bits set, +0.0f; then a negative subnormal,
\* +infinity, a negative normal
OperandTable32 ==
  << << pack32(TRUE, 0 .. 7, {0, 21}) \cup UpperOnes,
        pack32(FALSE, 0 .. 6, {}),
        pack32(FALSE, 0 .. 7, {22, 3}) >>,
     << pack32(FALSE, 0 .. 6, {}),
        pack32(TRUE, {7}, {}) \cup UpperOnes,
        {} >>,
     << pack32(TRUE, {}, {5}),
        pack32(FALSE, 0 .. 7, {}),
        pack32(TRUE, {1, 2}, {22}) >> >>

\* operand triples of the double-precision helpers
OperandTable64 ==
  << << pack64(TRUE, 0 .. 10, {0, 50}),
        pack64(FALSE, 0 .. 9, {}),
        pack64(FALSE, 0 .. 10, {51, 3}) >>,
     << pack64(FALSE, 0 .. 9, {}),
        pack64(TRUE, {10}, {}),
        {} >>,
     << pack64(TRUE, {}, {5}),
        pack64(FALSE, 0 .. 10, {}),
        pack64(TRUE, {1, 2}, {51}) >> >>

FusedOperands32 == {OperandTable32[i] : i \in 1 .. NumFusedOperands}

FusedOperands64 == {OperandTable64[i] : i \in 1 .. NumFusedOperands}

\* the registers the other helpers are given
Operands32 == {OperandTable32[1]}

Operands64 == {OperandTable64[1]}

\* what fclass.s is given: 64-bit registers
ClassTable32 ==
  << pack32(FALSE, 0 .. 7, {22}),
     pack32(FALSE, 0 .. 7, {0}) \cup UpperOnes,
     pack32(TRUE, 0 .. 7, {}),
     pack32(FALSE, {}, {22}),
     pack32(TRUE, {}, {}),
     pack32(FALSE, 0 .. 6, {}),
     pack32(TRUE, 0 .. 7, {21, 22}),
     pack32(TRUE, {0}, {7}) \cup UpperOnes,
     pack32(FALSE, 0 .. 7, {}),
     pack32(TRUE, {}, {0}),
     {} >>

\* what fclass.d is given
ClassTable64 ==
  << pack64(FALSE, 0 .. 10, {51}),
     pack64(FALSE, {}, {51}),
     pack64(FALSE, 0 .. 10, {0}),
     pack64(TRUE, 0 .. 10, {}),
     pack64(TRUE, {}, {}),
     pack64(FALSE, 0 .. 9, {}),
     pack64(TRUE, 0 .. 10, {23}),
     pack64(TRUE, {}, {30}),
     pack64(TRUE, {0}, {7}),
     pack64(FALSE, 0 .. 10, {}),
     {} >>

ClassInputs32 == {ClassTable32[i] : i \in 1 .. NumClassInputs}

ClassInputs64 == {ClassTable64[i] : i \in 1 .. NumClassInputs}

(* ---------------------------- processor state -------------------------- *)

\* the FS field of mstatus, bits 13 and 14
MSTATUS_FS == {13, 14}

\* values of the frm CSR, a three-bit field: a reserved one first
FrmTable == <<5, 3, 7, 0, 6, 1, 2, 4>>

FrmValues == {FrmTable[i] : i \in 1 .. NumFrmValues}

Init ==
  /\ \E fs \in {{}, MSTATUS_FS}, frm \in FrmValues :
       env = [ mstatus   |-> fs,
               frm       |-> frm,
               fflags    |-> {},
               fp_status |-> [ float_rounding_mode    |-> ieee_rm[1],
                               float_exception_flags |-> {} ] ]
  /\ call = [ helper |-> "none", operands |-> << >>, rm |-> 0, trapped |-> FALSE,
              trace |-> << >>, prim |-> "none", args |-> << >>, raised |-> {},
              drained |-> {}, mode |-> "none", class |-> {} ]

(* ------------------------- the helpers' building blocks ---------------- *)

\* require_fp: whether helper_raise_exception(env, RISCV_EXCP_ILLEGAL_INST)
\* is called, which does not return
require_fp(e) == AND(e.mstatus, MSTATUS_FS) = {}

\* mutant: the reserved-code test written rm > 5
set_fp_round_mode_above_five(e, rm) ==
  LET r == IF rm = 7 THEN e.frm ELSE rm
  IN  IF rm # 7 /\ rm > 5
        THEN {[trap |-> TRUE, env |-> e]}
        ELSE { [trap |-> FALSE,
                env  |-> [e EXCEPT !.fp_status.float_rounding_mode = v]] :
               v \in IF r <= 4 THEN {ieee_rm[r + 1]} ELSE OutOfBoundsRead }

\* set_fp_round_mode: the outcomes of one call, each either the trap or the
\* state with a rounding mode installed
set_fp_round_mode(e, rm) ==
  LET r == IF rm = 7 THEN e.frm ELSE rm
  IN  IF rm # 7 /\ rm > 4
        THEN {[trap |-> TRUE, env |-> e]}
        ELSE { [trap |-> FALSE,
                env  |-> [e EXCEPT !.fp_status.float_rounding_mode = v]] :
               v \in IF r <= 4 THEN {ieee_rm[r + 1]} ELSE OutOfBoundsRead }

\* mutant: env->fflags assigned, not ORed into
set_fp_exceptions_assigning(e) ==
  LET flags == e.fp_status.float_exception_flags
  IN  [e EXCEPT !.fp_status.float_exception_flags = {},
                !.fflags = softfloat_flags_to_riscv(flags)]

\* mutant: the library's flag set is read but not reset
set_fp_exceptions_not_resetting(e) ==
  LET flags == e.fp_status.float_exception_flags
  IN  IF flags # {}
        THEN [e EXCEPT !.fflags = @ \cup softfloat_flags_to_riscv(flags)]
        ELSE e

set_fp_exceptions(e) ==
  LET flags == e.fp_status.float_exception_flags
  IN  IF flags # {}
        THEN [e EXCEPT !.fp_status.float_exception_flags = {},
                       !.fflags = @ \cup softfloat_flags_to_riscv(flags)]
        ELSE e

\* a softfloat primitive raising `raised`: float_raise ORs into the flag set
float_raise(e, raised) ==
  [e EXCEPT !.fp_status.float_exception_flags = @ \cup raised]

\* the softfloat primitives whose result does not read the rounding mode
RoundingIndependent ==
  { "float32_minnum", "float32_maxnum", "float32_le", "float32_lt",
    "float32_eq_quiet", "float64_minnum", "float64_maxnum", "float64_le",
    "float64_lt", "float64_eq_quiet" }

\* an outcome of a helper call: the processor state it leaves and the record
\* of the call.  helper_raise_exception does not return: a trap leaves `e`
Trap(e, h, opnds, rm, trace) ==
  [ env  |-> e,
    call |-> [ helper |-> h, operands |-> opnds, rm |-> rm, trapped |-> TRUE,
               trace |-> trace, prim |-> "none", args |-> << >>, raised |-> {},
               drained |-> {}, mode |-> "none", class |-> {} ] ]

\* `before` is the state set_fp_exceptions is called in, `after` the state
\* the helper returns in
Return(h, opnds, rm, trace, prim, args, raised, before, after) ==
  [ env  |-> after,
    call |-> [ helper |-> h, operands |-> opnds, rm |-> rm, trapped |-> FALSE,
               trace |-> trace, prim |-> prim, args |-> args, raised |-> raised,
               drained |-> before.fp_status.float_exception_flags,
               mode |-> IF prim \in RoundingIndependent THEN "unread"
                        ELSE before.fp_status.float_rounding_mode,
               class |-> {} ] ]

\* mutant: set_fp_exceptions called before the primitive instead of after it
Rounded_draining_first(e, h, prim, opnds, args, rm, post) ==
  IF require_fp(e)
    THEN {Trap(e, h, opnds, rm, <<"require_fp", "helper_raise_exception">>)}
    ELSE UNION {
           IF r.trap
             THEN {Trap(e, h, opnds, rm, <<"require_fp", "set_fp_round_mode",
                                           "helper_raise_exception">>)}
             ELSE { Return(h, opnds, rm,
                           <<"require_fp", "set_fp_round_mode",
                             "set_fp_exceptions", prim>> \o post,
                           prim, args, raised, r.env,
                           float_raise(set_fp_exceptions(r.env), raised)) :
                    raised \in FlagOutcomes }
           : r \in set_fp_round_mode(e, rm) }

\* require_fp; set_fp_round_mode(env, rm); prim(args); set_fp_exceptions(env);
\* `post` is what runs on the result after set_fp_exceptions.  The outcomes
\* of a call with rounding code rm, over the flag sets the primitive may raise
Rounded(e, h, prim, opnds, args, rm, post) ==
  IF require_fp(e)
    THEN {Trap(e, h, opnds, rm, <<"require_fp", "helper_raise_exception">>)}
    ELSE UNION {
           IF r.trap
             THEN {Trap(e, h, opnds, rm, <<"require_fp", "set_fp_round_mode",
                                           "helper_raise_exception">>)}
             ELSE { Return(h, opnds, rm,
                           <<"require_fp", "set_fp_round_mode", prim,
                             "set_fp_exceptions">> \o post,
                           prim, args, raised, float_raise(r.env, raised),
                           set_fp_exceptions(float_raise(r.env, raised))) :
                    raised \in FlagOutcomes }
           : r \in set_fp_round_mode(e, rm) }

\* require_fp; prim(args); set_fp_exceptions(env)
Unrounded(e, h, prim, opnds, args) ==
  IF require_fp(e)
    THEN {Trap(e, h, opnds, 0, <<"require_fp", "helper_raise_exception">>)}
    ELSE { Return(h, opnds, 0, <<"require_fp", prim, "set_fp_exceptions">>,
                  prim, args, raised, float_raise(e, raised),
                  set_fp_exceptions(float_raise(e, raised))) :
           raised \in FlagOutcomes }

(* --------------------------- fused multiply-add ------------------------ *)
helper_fmadd_s ==
  \E t \in FusedOperands32, rm \in RoundingCodes :
    \E o \in Rounded(env, "helper_fmadd_s", "float32_muladd", t,
            <<cast_uint32(t[1]), cast_uint32(t[2]), cast_uint32(t[3])>>, rm, << >>) :
      /\ env' = o.env
      /\ call' = o.call

helper_fmadd_d ==
  \E t \in FusedOperands64, rm \in RoundingCodes :
    \E o \in Rounded(env, "helper_fmadd_d", "float64_muladd", t,
            <<cast_uint64(t[1]), cast_uint64(t[2]), cast_uint64(t[3])>>, rm, << >>) :
      /\ env' = o.env
      /\ call' = o.call

helper_fmsub_s ==
  \E t \in FusedOperands32, rm \in RoundingCodes :
    \E o \in Rounded(env, "helper_fmsub_s", "float32_muladd", t,
            <<cast_uint32(t[1]), cast_uint32(t[2]), cast_uint32(XOR(t[3], UINT32_INT32_MIN))>>, rm, << >>) :
      /\ env' = o.env
      /\ call' = o.call

\* mutant: the 32-bit sign mask used on the 64-bit operand
helper_fmsub_d_mask32 ==
  \E t \in FusedOperands64, rm \in RoundingCodes :
    \E o \in Rounded(env, "helper_fmsub_d", "float64_muladd", t,
            <<cast_uint64(t[1]), cast_uint64(t[2]), cast_uint64(XOR(t[3], UINT32_INT32_MIN))>>, rm, << >>) :
      /\ env' = o.env
      /\ call' = o.call

helper_fmsub_d ==
  \E t \in FusedOperands64, rm \in RoundingCodes :
    \E o \in Rounded(env, "helper_fmsub_d", "float64_muladd", t,
            <<cast_uint64(t[1]), cast_uint64(t[2]), cast_uint64(XOR(t[3], UINT64_INT64_MIN))>>, rm, << >>) :
      /\ env' = o.env
      /\ call' = o.call

helper_fnmsub_s ==
  \E t \in FusedOperands32, rm \in RoundingCodes :
    \E o \in Rounded(env, "helper_fnmsub_s", "float32_muladd", t,
            <<cast_uint32(XOR(t[1], UINT32_INT32_MIN)), cast_uint32(t[2]), cast_uint32(t[3])>>, rm, << >>) :
      /\ env' = o.env
      /\ call' = o.call

helper_fnmsub_d ==
  \E t \in FusedOperands64, rm \in RoundingCodes :
    \E o \in Rounded(env, "helper_fnmsub_d", "float64_muladd", t,
            <<cast_uint64(XOR(t[1], UINT64_INT64_MIN)), cast_uint64(t[2]), cast_uint64(t[3])>>, rm, << >>) :
      /\ env' = o.env
      /\ call' = o.call

helper_fnmadd_s ==
  \E t \in FusedOperands32, rm \in RoundingCodes :
    \E o \in Rounded(env, "helper_fnmadd_s", "float32_muladd", t,
            <<cast_uint32(XOR(t[1], UINT32_INT32_MIN)), cast_uint32(t[2]), cast_uint32(XOR(t[3], UINT32_INT32_MIN))>>, rm, << >>) :
      /\ env' = o.env
      /\ call' = o.call

helper_fnmadd_d ==
  \E t \in FusedOperands64, rm \in RoundingCodes :
    \E o \in Rounded(env, "helper_fnmadd_d", "float64_muladd", t,
            <<cast_uint64(XOR(t[1], UINT64_INT64_MIN)), cast_uint64(t[2]), cast_uint64(XOR(t[3], UINT64_INT64_MIN))>>, rm, << >>) :
      /\ env' = o.env
      /\ call' = o.call

(* ------------------------- single precision ---------------------------- *)

helper_fadd_s ==
  \E t \in Operands32, rm \in RoundingCodes :
    \E o \in Rounded(env, "helper_fadd_s", "float32_add", <<t[1], t[2]>>,
            <<cast_uint32(t[1]), cast_uint32(t[2])>>, rm, << >>) :
      /\ env' = o.env
      /\ call' = o.call

helper_fsub_s ==
  \E t \in Operands32, rm \in RoundingCodes :
    \E o \in Rounded(env, "helper_fsub_s", "float32_sub", <<t[1], t[2]>>,
            <<cast_uint32(t[1]), cast_uint32(t[2])>>, rm, << >>) :
      /\ env' = o.env
      /\ call' = o.call

helper_fmul_s ==
  \E t \in Operands32, rm \in RoundingCodes :
    \E o \in Rounded(env, "helper_fmul_s", "float32_mul", <<t[1], t[2]>>,
            <<cast_uint32(t[1]), cast_uint32(t[2])>>, rm, << >>) :
      /\ env' = o.env
      /\ call' = o.call

helper_fdiv_s ==
  \E t \in Operands32, rm \in RoundingCodes :
    \E o \in Rounded(env, "helper_fdiv_s", "float32_div", <<t[1], t[2]>>,
            <<cast_uint32(t[1]), cast_uint32(t[2])>>, rm, << >>) :
      /\ env' = o.env
      /\ call' = o.call

\* mutant: fmin.s resolving a rounding mode like the arithmetic helpers
helper_fmin_s_resolving ==
  \E t \in Operands32, rm \in RoundingCodes :
    \E o \in Rounded(env, "helper_fmin_s", "float32_minnum", <<t[1], t[2]>>,
            <<cast_uint32(t[1]), cast_uint32(t[2])>>, rm, << >>) :
      /\ env' = o.env
      /\ call' = o.call

helper_fmin_s ==
  \E t \in Operands32 :
    \E o \in Unrounded(env, "helper_fmin_s", "float32_minnum", <<t[1], t[2]>>,
              <<cast_uint32(t[1]), cast_uint32(t[2])>>) :
      /\ env' = o.env
      /\ call' = o.call

helper_fmax_s ==
  \E t \in Operands32 :
    \E o \in Unrounded(env, "helper_fmax_s", "float32_maxnum", <<t[1], t[2]>>,
              <<cast_uint32(t[1]), cast_uint32(t[2])>>) :
      /\ env' = o.env
      /\ call' = o.call

helper_fsqrt_s ==
  \E t \in Operands32, rm \in RoundingCodes :
    \E o \in Rounded(env, "helper_fsqrt_s", "float32_sqrt", <<t[1]>>, <<cast_uint32(t[1])>>, rm, << >>) :
      /\ env' = o.env
      /\ call' = o.call

helper_fle_s ==
  \E t \in Operands32 :
    \E o \in Unrounded(env, "helper_fle_s", "float32_le", <<t[1], t[2]>>,
              <<cast_uint32(t[1]), cast_uint32(t[2])>>) :
      /\ env' = o.env
      /\ call' = o.call

helper_flt_s ==
  \E t \in Operands32 :
    \E o \in Unrounded(env, "helper_flt_s", "float32_lt", <<t[1], t[2]>>,
              <<cast_uint32(t[1]), cast_uint32(t[2])>>) :
      /\ env' = o.env
      /\ call' = o.call

helper_feq_s ==
  \E t \in Operands32 :
    \E o \in Unrounded(env, "helper_feq_s", "float32_eq_quiet", <<t[1], t[2]>>,
              <<cast_uint32(t[1]), cast_uint32(t[2])>>) :
      /\ env' = o.env
      /\ call' = o.call

helper_fcvt_w_s ==
  \E t \in Operands32, rm \in RoundingCodes :
    \E o \in Rounded(env, "helper_fcvt_w_s", "float32_to_int32", <<t[1]>>, <<cast_uint32(t[1])>>, rm, << >>) :
      /\ env' = o.env
      /\ call' = o.call

helper_fcvt_wu_s ==
  \E t \in Operands32, rm \in RoundingCodes :
    \E o \in Rounded(env, "helper_fcvt_wu_s", "float32_to_uint32", <<t[1]>>, <<cast_uint32(t[1])>>, rm, << >>) :
      /\ env' = o.env
      /\ call' = o.call

helper_fcvt_l_s ==
  \E t \in Operands32, rm \in RoundingCodes :
    \E o \in Rounded(env, "helper_fcvt_l_s", "float32_to_int64", <<t[1]>>, <<cast_uint32(t[1])>>, rm, << >>) :
      /\ env' = o.env
      /\ call' = o.call

helper_fcvt_lu_s ==
  \E t \in Operands32, rm \in RoundingCodes :
    \E o \in Rounded(env, "helper_fcvt_lu_s", "float32_to_uint64", <<t[1]>>, <<cast_uint32(t[1])>>, rm, << >>) :
      /\ env' = o.env
      /\ call' = o.call

helper_fcvt_s_w ==
  \E t \in Operands64, rm \in RoundingCodes :
    \E o \in Rounded(env, "helper_fcvt_s_w", "int32_to_float32", <<t[1]>>, <<cast_uint32(t[1])>>, rm, << >>) :
      /\ env' = o.env
      /\ call' = o.call

helper_fcvt_s_wu ==
  \E t \in Operands64, rm \in RoundingCodes :
    \E o \in Rounded(env, "helper_fcvt_s_wu", "uint32_to_float32", <<t[1]>>, <<cast_uint32(t[1])>>, rm, << >>) :
      /\ env' = o.env
      /\ call' = o.call

helper_fcvt_s_l ==
  \E t \in Operands64, rm \in RoundingCodes :
    \E o \in Rounded(env, "helper_fcvt_s_l", "int64_to_float32", <<t[1]>>, <<cast_uint64(t[1])>>, rm, << >>) :
      /\ env' = o.env
      /\ call' = o.call

helper_fcvt_s_lu ==
  \E t \in Operands64, rm \in RoundingCodes :
    \E o \in Rounded(env, "helper_fcvt_s_lu", "uint64_to_float32", <<t[1]>>, <<cast_uint64(t[1])>>, rm, << >>) :
      /\ env' = o.env
      /\ call' = o.call

(* ------------------------- double precision ---------------------------- *)

helper_fadd_d ==
  \E t \in Operands64, rm \in RoundingCodes :
    \E o \in Rounded(env, "helper_fadd_d", "float64_add", <<t[1], t[2]>>,
            <<cast_uint64(t[1]), cast_uint64(t[2])>>, rm, << >>) :
      /\ env' = o.env
      /\ call' = o.call

helper_fsub_d ==
  \E t \in Operands64, rm \in RoundingCodes :
    \E o \in Rounded(env, "helper_fsub_d", "float64_sub", <<t[1], t[2]>>,
            <<cast_uint64(t[1]), cast_uint64(t[2])>>, rm, << >>) :
      /\ env' = o.env
      /\ call' = o.call

helper_fmul_d ==
  \E t \in Operands64, rm \in RoundingCodes :
    \E o \in Rounded(env, "helper_fmul_d", "float64_mul", <<t[1], t[2]>>,
            <<cast_uint64(t[1]), cast_uint64(t[2])>>, rm, << >>) :
      /\ env' = o.env
      /\ call' = o.call

helper_fdiv_d ==
  \E t \in Operands64, rm \in RoundingCodes :
    \E o \in Rounded(env, "helper_fdiv_d", "float64_div", <<t[1], t[2]>>,
            <<cast_uint64(t[1]), cast_uint64(t[2])>>, rm, << >>) :
      /\ env' = o.env
      /\ call' = o.call

helper_fmin_d ==
  \E t \in Operands64 :
    \E o \in Unrounded(env, "helper_fmin_d", "float64_minnum", <<t[1], t[2]>>,
              <<cast_uint64(t[1]), cast_uint64(t[2])>>) :
      /\ env' = o.env
      /\ call' = o.call

helper_fmax_d ==
  \E t \in Operands64 :
    \E o \in Unrounded(env, "helper_fmax_d", "float64_maxnum", <<t[1], t[2]>>,
              <<cast_uint64(t[1]), cast_uint64(t[2])>>) :
      /\ env' = o.env
      /\ call' = o.call

helper_fcvt_s_d ==
  \E t \in Operands64, rm \in RoundingCodes :
    \E o \in Rounded(env, "helper_fcvt_s_d", "float64_to_float32", <<t[1]>>, <<cast_uint64(t[1])>>, rm, <<"float32_maybe_silence_nan">>) :
      /\ env' = o.env
      /\ call' = o.call

helper_fcvt_d_s ==
  \E t \in Operands32, rm \in RoundingCodes :
    \E o \in Rounded(env, "helper_fcvt_d_s", "float32_to_float64", <<t[1]>>, <<cast_uint32(t[1])>>, rm, <<"float64_maybe_silence_nan">>) :
      /\ env' = o.env
      /\ call' = o.call

helper_fsqrt_d ==
  \E t \in Operands64, rm \in RoundingCodes :
    \E o \in Rounded(env, "helper_fsqrt_d", "float64_sqrt", <<t[1]>>, <<cast_uint64(t[1])>>, rm, << >>) :
      /\ env' = o.env
      /\ call' = o.call

helper_fle_d ==
  \E t \in Operands64 :
    \E o \in Unrounded(env, "helper_fle_d", "float64_le", <<t[1], t[2]>>,
              <<cast_uint64(t[1]), cast_uint64(t[2])>>) :
      /\ env' = o.env
      /\ call' = o.call

helper_flt_d ==
  \E t \in Operands64 :
    \E o \in Unrounded(env, "helper_flt_d", "float64_lt", <<t[1], t[2]>>,
              <<cast_uint64(t[1]), cast_uint64(t[2])>>) :
      /\ env' = o.env
      /\ call' = o.call

helper_feq_d ==
  \E t \in Operands64 :
    \E o \in Unrounded(env, "helper_feq_d", "float64_eq_quiet", <<t[1], t[2]>>,
              <<cast_uint64(t[1]), cast_uint64(t[2])>>) :
      /\ env' = o.env
      /\ call' = o.call

helper_fcvt_w_d ==
  \E t \in Operands64, rm \in RoundingCodes :
    \E o \in Rounded(env, "helper_fcvt_w_d", "float64_to_int32", <<t[1]>>, <<cast_uint64(t[1])>>, rm, << >>) :
      /\ env' = o.env
      /\ call' = o.call

helper_fcvt_wu_d ==
  \E t \in Operands64, rm \in RoundingCodes :
    \E o \in Rounded(env, "helper_fcvt_wu_d", "float64_to_uint32", <<t[1]>>, <<cast_uint64(t[1])>>, rm, << >>) :
      /\ env' = o.env
      /\ call' = o.call

helper_fcvt_l_d ==
  \E t \in Operands64, rm \in RoundingCodes :
    \E o \in Rounded(env, "helper_fcvt_l_d", "float64_to_int64", <<t[1]>>, <<cast_uint64(t[1])>>, rm, << >>) :
      /\ env' = o.env
      /\ call' = o.call

helper_fcvt_lu_d ==
  \E t \in Operands64, rm \in RoundingCodes :
    \E o \in Rounded(env, "helper_fcvt_lu_d", "float64_to_uint64", <<t[1]>>, <<cast_uint64(t[1])>>, rm, << >>) :
      /\ env' = o.env
      /\ call' = o.call

helper_fcvt_d_w ==
  \E t \in Operands64, rm \in RoundingCodes :
    \E o \in Rounded(env, "helper_fcvt_d_w", "int32_to_float64", <<t[1]>>, <<cast_uint32(t[1])>>, rm, << >>) :
      /\ env' = o.env
      /\ call' = o.call

helper_fcvt_d_wu ==
  \E t \in Operands64, rm \in RoundingCodes :
    \E o \in Rounded(env, "helper_fcvt_d_wu", "uint32_to_float64", <<t[1]>>, <<cast_uint32(t[1])>>, rm, << >>) :
      /\ env' = o.env
      /\ call' = o.call

helper_fcvt_d_l ==
  \E t \in Operands64, rm \in RoundingCodes :
    \E o \in Rounded(env, "helper_fcvt_d_l", "int64_to_float64", <<t[1]>>, <<cast_uint64(t[1])>>, rm, << >>) :
      /\ env' = o.env
      /\ call' = o.call

helper_fcvt_d_lu ==
  \E t \in Operands64, rm \in RoundingCodes :
    \E o \in Rounded(env, "helper_fcvt_d_lu", "uint64_to_float64", <<t[1]>>, <<cast_uint64(t[1])>>, rm, << >>) :
      /\ env' = o.env
      /\ call' = o.call

(* ------------------------------ classification ------------------------ *)

\* softfloat with snan_bit_is_one clear: a NaN whose top fraction bit is 0
float32_is_signaling_nan(a) ==
  /\ AND(SHR(a, 22), 0 .. 8) = 1 .. 8
  /\ AND(a, 0 .. 21) # {}

float64_is_signaling_nan(a) ==
  /\ AND(SHR(a, 51), 0 .. 11) = 1 .. 11
  /\ AND(a, 0 .. 50) # {}

\* 0xFF000000 < (uint32_t)((uint32_t)ui << 1)
isNaNF32UI(ui) == ULT(24 .. 31, cast_uint32(SHL32(cast_uint32(ui), 1)))

signF32UI(a) == SHR(cast_uint32(a), 31) # {}

\* (int16_t)(a >> 23) & 0xFF
expF32UI(a) == AND(cast_int16(SHR(a, 23)), 0 .. 7)

\* a & 0x007FFFFF
fracF32UI(a) == AND(a, 0 .. 22)

\* the bits of the result that are set
ClassBits(sign, infOrNaN, subnormalOrZero, fracZero, isNaN, isSNaN) ==
  {b \in 0 .. 9 :
     \/ b = 0 /\ sign /\ infOrNaN /\ fracZero
     \/ b = 1 /\ sign /\ ~infOrNaN /\ ~subnormalOrZero
     \/ b = 2 /\ sign /\ subnormalOrZero /\ ~fracZero
     \/ b = 3 /\ sign /\ subnormalOrZero /\ fracZero
     \/ b = 7 /\ ~sign /\ infOrNaN /\ fracZero
     \/ b = 6 /\ ~sign /\ ~infOrNaN /\ ~subnormalOrZero
     \/ b = 5 /\ ~sign /\ subnormalOrZero /\ ~fracZero
     \/ b = 4 /\ ~sign /\ subnormalOrZero /\ fracZero
     \/ b = 8 /\ isNaN /\ isSNaN
     \/ b = 9 /\ isNaN /\ ~isSNaN}

float32_classify(uiA) ==
  ClassBits(signF32UI(uiA),
            expF32UI(uiA) = 0 .. 7,
            expF32UI(uiA) = {},
            fracF32UI(uiA) = {},
            isNaNF32UI(uiA),
            float32_is_signaling_nan(uiA))

\* UINT64_C(0xFFE0000000000000) < (uint64_t)((uint64_t)ui << 1)
isNaNF64UI(ui) == ULT(53 .. 63, cast_uint64(SHL64(cast_uint64(ui), 1)))

signF64UI(a) == SHR(cast_uint64(a), 63) # {}

\* (int16_t)(a >> 52) & 0x7FF
expF64UI(a) == AND(cast_int16(SHR(a, 52)), 0 .. 10)

\* a & UINT64_C(0x000FFFFFFFFFFFFF)
fracF64UI(a) == AND(a, 0 .. 51)

float64_classify(uiA) ==
  ClassBits(signF64UI(uiA),
            expF64UI(uiA) = 0 .. 10,
            expF64UI(uiA) = {},
            fracF32UI(uiA) = {},
            isNaNF64UI(uiA),
            float64_is_signaling_nan(uiA))

\* require_fp; frs1 = floatN_classify(frs1, &env->fp_status); return frs1
Classify(e, h, prim, frs1, arg, result) ==
  IF require_fp(e)
    THEN Trap(e, h, <<frs1>>, 0, <<"require_fp", "helper_raise_exception">>)
    ELSE [ env  |-> e,
           call |-> [ helper |-> h, operands |-> <<frs1>>, rm |-> 0,
                      trapped |-> FALSE, trace |-> <<"require_fp", prim>>,
                      prim |-> prim, args |-> <<arg>>, raised |-> {},
                      drained |-> {}, mode |-> "unread", class |-> result ] ]

\* mutant: fclass.s without require_fp
helper_fclass_s_ungated ==
  \E frs1 \in ClassInputs32 :
    /\ env' = env
    /\ call' = [ helper |-> "helper_fclass_s", operands |-> <<frs1>>, rm |-> 0,
                 trapped |-> FALSE, trace |-> <<"float32_classify">>,
                 prim |-> "float32_classify", args |-> <<cast_uint32(frs1)>>,
                 raised |-> {}, drained |-> {}, mode |-> "unread",
                 class |-> float32_classify(cast_uint32(frs1)) ]

helper_fclass_s ==
  \E frs1 \in ClassInputs32 :
    \E o \in {Classify(env, "helper_fclass_s", "float32_classify", frs1, cast_uint32(frs1),
             float32_classify(cast_uint32(frs1)))} :
      /\ env' = o.env
      /\ call' = o.call

helper_fclass_d ==
  \E frs1 \in ClassInputs64 :
    \E o \in {Classify(env, "helper_fclass_d", "float64_classify", frs1, cast_uint64(frs1),
             float64_classify(cast_uint64(frs1)))} :
      /\ env' = o.env
      /\ call' = o.call

(* ------------------------------ specification -------------------------- *)

Next ==
  \/ helper_fmadd_s
  \/ helper_fmadd_d
  \/ helper_fmsub_s
  \/ helper_fmsub_d
  \/ helper_fnmsub_s
  \/ helper_fnmsub_d
  \/ helper_fnmadd_s
  \/ helper_fnmadd_d
  \/ helper_fadd_s
  \/ helper_fsub_s
  \/ helper_fmul_s
  \/ helper_fdiv_s
  \/ helper_fmin_s
  \/ helper_fmax_s
  \/ helper_fsqrt_s
  \/ helper_fle_s
  \/ helper_flt_s
  \/ helper_feq_s
  \/ helper_fcvt_w_s
  \/ helper_fcvt_wu_s
  \/ helper_fcvt_l_s
  \/ helper_fcvt_lu_s
  \/ helper_fcvt_s_w
  \/ helper_fcvt_s_wu
  \/ helper_fcvt_s_l
  \/ helper_fcvt_s_lu
  \/ helper_fadd_d
  \/ helper_fsub_d
  \/ helper_fmul_d
  \/ helper_fdiv_d
  \/ helper_fmin_d
  \/ helper_fmax_d
  \/ helper_fcvt_s_d
  \/ helper_fcvt_d_s
  \/ helper_fsqrt_d
  \/ helper_fle_d
  \/ helper_flt_d
  \/ helper_feq_d
  \/ helper_fcvt_w_d
  \/ helper_fcvt_wu_d
  \/ helper_fcvt_l_d
  \/ helper_fcvt_lu_d
  \/ helper_fcvt_d_w
  \/ helper_fcvt_d_wu
  \/ helper_fcvt_d_l
  \/ helper_fcvt_d_lu
  \/ helper_fclass_s
  \/ helper_fclass_d

Spec == Init /\ [][Next]_vars

(* =============================== claims ================================ *)

FusedHelpers ==
  { "helper_fmadd_s", "helper_fmadd_d", "helper_fmsub_s", "helper_fmsub_d",
    "helper_fnmsub_s", "helper_fnmsub_d", "helper_fnmadd_s", "helper_fnmadd_d" }

MinMaxCompareHelpers ==
  { "helper_fmin_s", "helper_fmax_s", "helper_fle_s", "helper_flt_s",
    "helper_feq_s", "helper_fmin_d", "helper_fmax_d", "helper_fle_d",
    "helper_flt_d", "helper_feq_d" }

SingleMinMaxCompare ==
  { "helper_fmin_s", "helper_fmax_s", "helper_fle_s", "helper_flt_s",
    "helper_feq_s" }

ClassHelpers == {"helper_fclass_s", "helper_fclass_d"}

Called == call.helper # "none"

\* a helper that takes a rounding code
TakesRoundingCode(h) ==
  h \notin MinMaxCompareHelpers \cup ClassHelpers \cup {"none"}

FsClear(e) == e.mstatus \cap {13, 14} = {}

Positions(seq, x) == {i \in 1 .. Len(seq) : seq[i] = x}

\* the RISC-V encoding of the five IEEE flags, one to one
RiscvOf ==
  { <<"float_flag_inexact", "FPEXC_NX">>, <<"float_flag_underflow", "FPEXC_UF">>,
    <<"float_flag_overflow", "FPEXC_OF">>, <<"float_flag_divbyzero", "FPEXC_DZ">>,
    <<"float_flag_invalid", "FPEXC_NV">> }

Translation(flags) == {p[2] : p \in {q \in RiscvOf : q[1] \in flags}}

\* the directive of each valid rounding code
DirectiveOf(code) ==
  CASE code = 0 -> "float_round_nearest_even"
    [] code = 1 -> "float_round_to_zero"
    [] code = 2 -> "float_round_down"
    [] code = 3 -> "float_round_up"
    [] code = 4 -> "float_round_ties_away"

\* C1: a helper that takes a rounding code rm, called with floating point
\* enabled, resolves it (frm when rm = 7, otherwise rm); it raises
\* IllegalInstruction whenever the resolved code is not in 0..4, and otherwise
\* completes with the directive of the resolved code installed.
C1_ResolvedCodeDecides ==
  (Called /\ TakesRoundingCode(call.helper) /\ ~FsClear(env)) =>
     LET resolved == IF call.rm = 7 THEN env.frm ELSE call.rm
     IN  IF resolved \in 0 .. 4
           THEN /\ ~call.trapped
                /\ env.fp_status.float_rounding_mode = DirectiveOf(resolved)
           ELSE call.trapped

\* C2: the class vector fclass.s and fclass.d return has exactly one of its
\* ten bits set.
C2_ExactlyOneClassBit ==
  (call.helper \in ClassHelpers /\ ~call.trapped) =>
     /\ call.class \subseteq 0 .. 9
     /\ Cardinality(call.class) = 1

\* the IEEE class of a pattern with `fbits` fraction bits and `ebits`
\* exponent bits: sign at fbits + ebits, quiet bit at fbits - 1
IeeeClass(x, fbits, ebits) ==
  LET sign == (fbits + ebits) \in x
      exp  == {b \in x : b >= fbits /\ b < fbits + ebits}
      frac == {b \in x : b < fbits}
      ones == Cardinality(exp) = ebits
  IN  CASE ones /\ frac # {} /\ (fbits - 1) \in frac    -> 9
        [] ones /\ frac # {} /\ (fbits - 1) \notin frac -> 8
        [] ones /\ frac = {}                            -> IF sign THEN 0 ELSE 7
        [] exp = {} /\ frac = {}                        -> IF sign THEN 3 ELSE 4
        [] exp = {} /\ frac # {}                        -> IF sign THEN 2 ELSE 5
        [] OTHER                                        -> IF sign THEN 1 ELSE 6

\* C8: classification selects the bit of the pattern's IEEE class, computed
\* from the width's own sign, exponent field and full fraction field (23
\* fraction bits for binary32, 52 for binary64).
C8_ClassIsIeeeClass ==
  (call.helper \in ClassHelpers /\ ~call.trapped) =>
     call.class = { IF call.helper = "helper_fclass_s"
                      THEN IeeeClass(call.args[1], 23, 8)
                      ELSE IeeeClass(call.args[1], 52, 11) }

\* C3: when a helper other than fclass is called with the FS field of mstatus
\* clear, or a helper that takes a rounding code is called with code 5 or 6,
\* the call ends in the IllegalInstruction trap and nothing else happens: no
\* primitive, no rounding directive installed, no flag translation, and
\* fflags, frm and the library's flag set and rounding mode keep their values.
C3_TrapDoesNothingElse ==
  [][ ( /\ call'.helper \notin ClassHelpers \cup {"none"}
        /\ \/ FsClear(env)
           \/ TakesRoundingCode(call'.helper) /\ call'.rm \in {5, 6} )
      => /\ call'.trapped
         /\ env' = env
         /\ call'.prim = "none"
         /\ call'.trace \in { <<"require_fp", "helper_raise_exception">>,
                              <<"require_fp", "set_fp_round_mode",
                                "helper_raise_exception">> }
         /\ (FsClear(env) => Len(call'.trace) = 2) ]_vars

\* a static rounding code of 6 trapped with floating point enabled
C3_Witness ==
  /\ call.helper = "helper_fdiv_d"
  /\ call.rm = 6
  /\ ~FsClear(env)
  /\ call.trapped
  /\ Len(call.trace) = 3

PrimitiveAt(c) == Positions(c.trace, c.prim)

\* C5 as stated: every operation resets the library's flag set before it
\* invokes its arithmetic primitive.
C5_ResetBeforePrimitive ==
  (Called /\ ~call.trapped /\ call.helper \notin ClassHelpers) =>
     \E i \in 1 .. Len(call.trace) :
       /\ call.trace[i] \in {"set_float_exception_flags", "set_fp_exceptions"}
       /\ \A j \in PrimitiveAt(call) : i < j

\* C5 amended: the flag set is reset after the primitive, by the drain, and
\* not before it; the flags a call drains are those its own primitive raised,
\* and their translation is in fflags when it returns.
C5_DrainedAreOwnFlags ==
  (Called /\ ~call.trapped /\ call.helper \notin ClassHelpers) =>
     /\ PrimitiveAt(call) # {}
     /\ \A i \in Positions(call.trace, "set_fp_exceptions") :
          \A j \in PrimitiveAt(call) : j < i
     /\ Positions(call.trace, "set_fp_exceptions") # {}
     /\ call.drained = call.raised
     /\ Translation(call.raised) \subseteq env.fflags

\* a call that raised nothing after a call that raised the invalid flag
C5_Witness ==
  /\ call.helper = "helper_fsqrt_s"
  /\ ~call.trapped
  /\ call.raised = {}
  /\ env.fflags = {"FPEXC_NV"}

\* C6: min, max and the comparisons never call the rounding-mode resolver:
\* they trap only when FS is clear, whatever frm holds, leave frm and the
\* library's rounding mode as they were, pass their operands to a primitive
\* that does not read the rounding mode, and add to fflags the translation of
\* the flags that primitive raised.
C6_MinMaxCompareIgnoreRounding ==
  [][ call'.helper \in MinMaxCompareHelpers =>
        /\ Positions(call'.trace, "set_fp_round_mode") = {}
        /\ env'.frm = env.frm
        /\ env'.fp_status.float_rounding_mode = env.fp_status.float_rounding_mode
        /\ call'.trapped <=> FsClear(env)
        /\ ~call'.trapped =>
             /\ call'.mode = "unread"
             /\ call'.args =
                  LET w == IF call'.helper \in SingleMinMaxCompare THEN 32 ELSE 64
                  IN  << {b \in call'.operands[1] : b < w},
                         {b \in call'.operands[2] : b < w} >>
             /\ env'.fflags = env.fflags \cup Translation(call'.raised) ]_vars

\* a comparison completed while frm holds the reserved code 5 and an earlier
\* instruction installed round-to-zero
C6_Witness ==
  /\ call.helper = "helper_fle_d"
  /\ ~call.trapped
  /\ env.frm = 5
  /\ env.fp_status.float_rounding_mode = "float_round_to_zero"

Flip(x, bit) == IF bit \in x THEN x \ {bit} ELSE x \cup {bit}

Low(x, width) == {b \in x : b < width}

C9_ClassifyNeverTraps ==
  call.helper \in ClassHelpers => ~call.trapped

\* C9 amended: fclass.s and fclass.d pass the privilege gate like the other
\* helpers: they raise IllegalInstruction exactly when FS is clear and
\* otherwise return what the classifier computes; either way fflags, frm and
\* the library's rounding mode and flag set are unchanged.
C9_ClassifyIsGated ==
  [][ call'.helper \in ClassHelpers =>
        /\ env' = env
        /\ call'.trapped <=> FsClear(env)
        /\ call'.trapped => call'.class = {}
        /\ ~call'.trapped =>
             /\ call'.class # {}
             /\ call'.raised = {}
             /\ call'.trace = <<"require_fp", call'.prim>> ]_vars

\* fclass.d trapped with FS clear
C9_Witness ==
  /\ call.helper = "helper_fclass_d"
  /\ call.trapped
  /\ FsClear(env)

\* C10: whenever a helper has returned or trapped the library's flag set is
\* empty: a completed arithmetic call drains once, after its primitive, and
\* only the NaN-silencing step of the width conversions follows the drain; a
\* trapping call invokes no primitive.
C10_TransientFlagsEmpty ==
  /\ env.fp_status.float_exception_flags = {}
  /\ (Called /\ call.trapped) => call.prim = "none" /\ call.raised = {}
  /\ (Called /\ ~call.trapped /\ call.helper \notin ClassHelpers) =>
       /\ Cardinality(Positions(call.trace, "set_fp_exceptions")) = 1
       /\ Cardinality(PrimitiveAt(call)) = 1
       /\ \A i \in Positions(call.trace, "set_fp_exceptions") :
            /\ \A j \in PrimitiveAt(call) : j < i
            /\ \A k \in (i + 1) .. Len(call.trace) :
                 /\ call.trace[k] \in { "float32_maybe_silence_nan",
                                        "float64_maybe_silence_nan" }
                 /\ call.helper \in {"helper_fcvt_s_d", "helper_fcvt_d_s"}
       /\ Translation(call.raised) \subseteq env.fflags

\* a narrowing conversion that raised the invalid flag has returned
C10_Witness ==
  /\ call.helper = "helper_fcvt_s_d"
  /\ ~call.trapped
  /\ call.raised = {"float_flag_invalid"}
  /\ "FPEXC_NV" \in env.fflags
  /\ env.fp_status.float_exception_flags = {}
  /\ call.trace[Len(call.trace)] = "float32_maybe_silence_nan"
====
